---- MODULE Spec2Model ----
(***************************************************************************)
(* Scheduled publishing pipeline of the post manager:                      *)
(*   - TokenManager        (src/src/lib/token-manager.ts)                  *)
(*   - FacebookAutomation  (src/src/lib/facebook-automation.ts,            *)
(*                          src/scripts/facebook-automation.js)            *)
(*   - PostScheduler       (src/src/lib/post-scheduler.ts)                 *)
(*   - store operations    (src/src/store.ts)                              *)
(*   - FacebookAuth        (src/unnamed/part_004)                          *)
(* Each component has its own specification over the shared variables:     *)
(* SpecTok, SpecTokOps, SpecRetry, SpecSession, SpecSched, SpecStore,     *)
(* SpecAuth.                                                               *)
(***************************************************************************)
EXTENDS Integers, Sequences, FiniteSets, Bags, TLC

VARIABLES
  \* ---- TokenManager ----
  now,        \* Date.now(), in milliseconds
  tokens,     \* TokenManager.tokens : page id -> entry
  storage,    \* localStorage item 'fb_tokens'
  lastSet,    \* history: the latest setToken call per page in this process run
  getRes,     \* history: the getToken call that has just returned (cleared by the
              \* next operation), with the latest setToken for its page
  saveFails,  \* number of localStorage.setItem calls that have thrown so far
  loaded,     \* history: the 'fb_tokens' item the constructor has just read
              \* (cleared by the next operation)
  \* ---- FacebookAutomation.retry ----
  rAttempts,  \* parameter attempts
  rScript,    \* what the i-th invocation of fn does
  rI,         \* loop variable i
  rPc,        \* position inside retry
  rTrace,     \* history: invocations ("call") and sleeps ("delay") in order
  rResult,    \* value returned or error thrown
  \* ---- FacebookAutomation (one instance) ----
  browser,    \* this.browser is not null
  page,       \* this.page is not null
  isLoggedIn, \* this.isLoggedIn
  liveBrowsers, \* browser processes launched and not closed
  tempFile,   \* a temp/image-*.jpg written by uploadImage exists on disk
  sPc,        \* "idle" or the method that is executing
  sIdx,       \* position inside createPost: index into CreateSteps(sOpts)
  sOpts,      \* the PostOptions of the createPost call
  sLast,      \* history: the method that has just ended and how
  \* ---- PostScheduler and the posts table ----
  posts,      \* rows of table posts (with their post_pages)
  ticks,      \* the running invocations of checkScheduledPosts, oldest first
  starts,     \* number of start() calls so far
  timers,     \* ids of the active setInterval timers
  nTimers,    \* number of timers created so far
  intervalId, \* this.intervalId (0 = undefined)
  ext,        \* history: per post, how often publishPost has succeeded
  lastWrite,  \* history: the status update processScheduledPost has just issued
              \* (cleared by the next step)
  lastQuery,  \* history: the select of checkScheduledPosts that has just returned
              \* (cleared by the next step)
  stopped,    \* history: stop() has been called and no start() call has followed
  \* ---- FacebookAuth ----
  initialized, \* FacebookAuth.initialized
  loggedOut   \* history: a logout() has completed and no setToken has followed

tokVars   == <<now, tokens, storage, lastSet, getRes, saveFails, loaded>>
retryVars == <<rAttempts, rScript, rI, rPc, rTrace, rResult>>
sessVars  == <<browser, page, isLoggedIn, liveBrowsers, tempFile, sPc, sIdx, sOpts, sLast>>
schedVars == <<posts, ticks, starts, timers, nTimers, intervalId, ext, lastWrite,
               lastQuery, stopped>>
authVars  == <<initialized, loggedOut>>
vars      == <<tokVars, retryVars, sessVars, schedVars, authVars>>

(***************************************************************************)
(* Bounds of the model                                                     *)
(***************************************************************************)
MaxNow      == 2000   \* the clock stops advancing here
ClockStep   == 1000   \* granularity of the clock
MaxTtl      == 1      \* largest expiresIn (seconds) passed to setToken
MaxSaveFails == 1     \* how many times localStorage.setItem may throw
MaxAttempts == 3      \* largest attempts value passed to retry
MaxBrowsers == 2      \* browser processes that may be alive at the same time
SchedHorizon == 1000  \* the clock stops here while the scheduler runs
MaxTicks    == 2      \* invocations of checkScheduledPosts running at the same time
MaxExt      == 2      \* the count of successful publishes of a post stops here
MaxStarts   == 2      \* calls of start() in one run

Pages      == {"pageA", "pageB"}
TokenVals  == {"tok1", "tok2"}

(***************************************************************************)
(* TokenManager                                                            *)
(***************************************************************************)
MsPerSecond == 1000

Absent == [present |-> FALSE, token |-> "", expiresAt |-> 0]

NoStorage == [kind |-> "none", doc |-> {}]

\* an expiresAt that is missing or not a number: "Date.now() >= expiresAt" is
\* false at every time
NotANumber == MaxNow + (MaxTtl + 1) * MsPerSecond

\* items that no saveTokens call has written: text that JSON.parse rejects,
\* the text "null", a number, and a document with an entry that lacks expiresAt
Unparseable == [kind |-> "unparseable", doc |-> {}]
NullText    == [kind |-> "null", doc |-> {}]
ScalarText  == [kind |-> "scalar", doc |-> {}]
Malformed   == [kind |-> "json", doc |-> {<<"pageA", "tok1", NotANumber>>}]

\* JSON.stringify(Object.fromEntries(this.tokens.entries())): one member per key
Stringify(m) ==
  {<<p, m[p].token, m[p].expiresAt>> : p \in {q \in Pages : m[q].present}}

\* JSON.parse + Object.entries(parsed).forEach(tokens.set) on an empty map
Parse(doc) ==
  [p \in Pages |->
     IF \E e \in doc : e[1] = p
     THEN LET e == CHOOSE x \in doc : x[1] = p
          IN  [present |-> TRUE, token |-> e[2], expiresAt |-> e[3]]
     ELSE Absent]

\* saveTokens: setItem may throw (quota); the error is caught and only logged
saveTokens(m, saveOk) ==
  IF saveOk THEN [kind |-> "json", doc |-> Stringify(m)] ELSE storage

\* this.tokens after loadTokens on a fresh (empty) map, item being the value
\* of 'fb_tokens': JSON.parse or Object.entries may throw, which is caught;
\* Object.entries of a number is empty
loadTokensFrom(item) ==
  IF item.kind = "json" THEN Parse(item.doc) ELSE [p \in Pages |-> Absent]

\* localStorage after loadTokens: the catch block removes the item
storageAfterLoad(item) ==
  IF item.kind \in {"unparseable", "null"} THEN NoStorage ELSE item

loadTokens == loadTokensFrom(storage)

\* mutant: the expiry instant itself still counts as valid
IsExpiredStrict(entry, t) == t > entry.expiresAt

\* the expiry test of getToken
IsExpired(entry, t) == t >= entry.expiresAt

\* return value of getToken(pageId); "" stands for null
getTokenValue(pageId) ==
  IF ~tokens[pageId].present THEN ""
  ELSE IF IsExpired(tokens[pageId], now) THEN ""
  ELSE tokens[pageId].token

\* mutant: an expired entry makes getToken drop every entry
getTokenMapDropAll(pageId) ==
  IF tokens[pageId].present /\ IsExpired(tokens[pageId], now)
  THEN [p \in Pages |-> Absent]
  ELSE tokens

\* this.tokens after getToken(pageId)
getTokenMap(pageId) ==
  IF tokens[pageId].present /\ IsExpired(tokens[pageId], now)
  THEN [tokens EXCEPT ![pageId] = Absent]
  ELSE tokens

\* mutant: the eviction of an expired entry is not persisted
getTokenStorageNoSave(pageId, saveOk) == storage

\* localStorage after getToken(pageId)
getTokenStorage(pageId, saveOk) ==
  IF tokens[pageId].present /\ IsExpired(tokens[pageId], now)
  THEN saveTokens(getTokenMap(pageId), saveOk)
  ELSE storage

\* outcomes the environment allows for the next localStorage.setItem
SaveOutcomes == IF saveFails < MaxSaveFails THEN BOOLEAN ELSE {TRUE}

NoSet == [called |-> FALSE, at |-> 0, ttl |-> 0, token |-> ""]
NoGet == [called |-> FALSE, page |-> "", value |-> "", at |-> 0, expiresAt |-> 0,
          set |-> NoSet]

\* mutant: an entry that exists is not replaced
setTokenKeepFirst(pageId, token, expiresIn, saveOk) ==
  /\ tokens' = IF tokens[pageId].present THEN tokens
               ELSE [tokens EXCEPT ![pageId] =
                       [present |-> TRUE, token |-> token,
                        expiresAt |-> now + expiresIn * MsPerSecond]]
  /\ storage' = saveTokens(tokens', saveOk)
  /\ saveFails' = IF saveOk THEN saveFails ELSE saveFails + 1
  /\ lastSet' = [lastSet EXCEPT ![pageId] =
                  [called |-> TRUE, at |-> now, ttl |-> expiresIn, token |-> token]]
  /\ getRes' = NoGet
  /\ loaded' = NoStorage
  /\ UNCHANGED now

setToken(pageId, token, expiresIn, saveOk) ==
  /\ tokens' = [tokens EXCEPT ![pageId] =
                  [present |-> TRUE, token |-> token,
                   expiresAt |-> now + expiresIn * MsPerSecond]]
  /\ storage' = saveTokens(tokens', saveOk)
  /\ saveFails' = IF saveOk THEN saveFails ELSE saveFails + 1
  /\ lastSet' = [lastSet EXCEPT ![pageId] =
                  [called |-> TRUE, at |-> now, ttl |-> expiresIn, token |-> token]]
  /\ getRes' = NoGet
  /\ loaded' = NoStorage
  /\ UNCHANGED now

getToken(pageId, saveOk) ==
  /\ getRes' = [called |-> TRUE, page |-> pageId, value |-> getTokenValue(pageId),
                at |-> now, expiresAt |-> tokens[pageId].expiresAt,
                set |-> lastSet[pageId]]
  /\ tokens' = getTokenMap(pageId)
  /\ storage' = getTokenStorage(pageId, saveOk)
  /\ saveFails' = IF tokens[pageId].present /\ IsExpired(tokens[pageId], now) /\ ~saveOk
                  THEN saveFails + 1 ELSE saveFails
  /\ loaded' = NoStorage
  /\ UNCHANGED <<now, lastSet>>

clearTokens ==
  /\ tokens' = [p \in Pages |-> Absent]
  /\ storage' = NoStorage
  /\ lastSet' = [p \in Pages |-> NoSet]
  /\ getRes' = NoGet
  /\ loaded' = NoStorage
  /\ UNCHANGED <<now, saveFails>>

\* a new process: the constructor runs loadTokens on an empty map
Restart ==
  /\ tokens' = loadTokens
  /\ storage' = storageAfterLoad(storage)
  /\ loaded' = storage
  /\ lastSet' = [p \in Pages |-> NoSet]
  /\ getRes' = NoGet
  /\ UNCHANGED <<now, saveFails>>

AdvanceClock ==
  /\ now + ClockStep <= MaxNow
  /\ now' = now + ClockStep
  /\ getRes' = NoGet
  /\ loaded' = NoStorage
  /\ UNCHANGED <<tokens, storage, lastSet, saveFails>>

(***************************************************************************)
(* FacebookAutomation.retry                                                *)
(***************************************************************************)
RetryDelay == 5000

\* what one invocation of fn can do: resolve with a value or reject with an error
Values   == {"value", "false"}
Errors   == {"errA", "errB"}
Outcomes == Values \cup Errors

\* mutant: the admin check rejects when no admin control is found
verifyPageAdminAccessThrows(present, queryThrows) ==
  IF queryThrows \/ ~present THEN "errA" ELSE "value"

\* scripts/facebook-automation.js verifyPageAdminAccess: true ("value") when
\* one of the admin selectors matches, false otherwise; an error of page.$
\* is caught and false is returned
verifyPageAdminAccess(present, queryThrows) ==
  IF queryThrows THEN "false"
  ELSE IF present THEN "value" ELSE "false"

\* navigateToPage after "hasAdminAccess = await this.retry(verifyPageAdminAccess)"
adminAccess(hasAdminAccess) ==
  IF hasAdminAccess = "false" THEN "No admin access to the page" ELSE "ok"

Calls(trace) == Len(SelectSeq(trace, LAMBDA e : e.kind = "call"))
Delays(trace) == Len(SelectSeq(trace, LAMBDA e : e.kind = "delay"))

\* mutant: gives up one attempt early
IsLastAttemptEarly(i, attempts) == i >= attempts - 2

\* "if (i === attempts - 1) throw error"
IsLastAttempt(i, attempts) == i = attempts - 1

\* mutant: rethrows the error of the first attempt
caughtErrorFirst(i) == rScript[1]

\* the error caught in iteration i: what that invocation of fn rejected with
caughtError(i) == rScript[i + 1]

\* checkIfLoggedIn: true ("value") when a logged-in marker is present, false
\* otherwise; an error of page.$ is caught and false is returned
checkIfLoggedIn(markers, queryThrows) ==
  IF queryThrows THEN "false"
  ELSE IF markers THEN "value" ELSE "false"

\* login after "this.isLoggedIn = await this.retry(checkIfLoggedIn)"
verifyLogin(checked) ==
  IF checked = "false" THEN "Login verification failed" ELSE "ok"

\* mutant: a falsy result counts as a failed attempt
RetryInvokeTruthy ==
  /\ rPc = "call"
  /\ rTrace' = Append(rTrace, [kind |-> "call", ms |-> 0])
  /\ IF rScript[rI + 1] = "value"
     THEN /\ rPc' = "returned"
          /\ rResult' = rScript[rI + 1]
     ELSE IF IsLastAttempt(rI, rAttempts)
     THEN /\ rPc' = IF rScript[rI + 1] \in Values THEN "returned" ELSE "thrown"
          /\ rResult' = caughtError(rI)
     ELSE /\ rPc' = "sleep"
          /\ rResult' = rResult
  /\ UNCHANGED <<rAttempts, rScript, rI>>

\* one loop iteration up to the end of the try/catch: "return await fn()"
RetryInvoke ==
  /\ rPc = "call"
  /\ rTrace' = Append(rTrace, [kind |-> "call", ms |-> 0])
  /\ IF rScript[rI + 1] \in Values
     THEN /\ rPc' = "returned"
          /\ rResult' = rScript[rI + 1]
     ELSE IF IsLastAttempt(rI, rAttempts)
     THEN /\ rPc' = "thrown"
          /\ rResult' = caughtError(rI)
     ELSE /\ rPc' = "sleep"
          /\ rResult' = rResult
  /\ UNCHANGED <<rAttempts, rScript, rI>>

\* "await new Promise(resolve => setTimeout(resolve, CONFIG.retryDelay))", i++
\* and the loop test; the statement after the loop throws 'Retry failed'
RetrySleep ==
  /\ rPc = "sleep"
  /\ rTrace' = Append(rTrace, [kind |-> "delay", ms |-> RetryDelay])
  /\ rI' = rI + 1
  /\ IF rI + 1 < rAttempts
     THEN rPc' = "call" /\ rResult' = rResult
     ELSE rPc' = "thrown" /\ rResult' = "Retry failed"
  /\ UNCHANGED <<rAttempts, rScript>>


(***************************************************************************)
(* FacebookAutomation: session state, createPost, uploadImage, cleanup     *)
(***************************************************************************)
NoOpts == [image |-> FALSE, schedule |-> FALSE, comment |-> FALSE]
PostOptions == [image : BOOLEAN, schedule : BOOLEAN, comment : BOOLEAN]

NoCall == [op |-> "", result |-> "", at |-> ""]
Ended(op, result, at) == [op |-> op, result |-> result, at |-> at]

\* the awaited statements of uploadImage, in order
UploadSteps == <<"fileInput", "fetch", "writeFile", "uploadFile", "unlink">>

\* the awaited statements of createPost after its two guards, in order
CreateSteps(o) ==
  <<"navigate", "composer", "textArea", "type">>
  \o (IF o.image THEN UploadSteps ELSE <<>>)
  \o (IF o.schedule THEN <<"schedule">> ELSE <<>>)
  \o <<"publish", "confirm">>
  \o (IF o.comment THEN <<"firstComment">> ELSE <<>>)

CurrentStep == CreateSteps(sOpts)[sIdx]

\* mutant: the first-comment step can reject like every other step
CanThrowAny(step) == TRUE

\* addFirstComment has an empty body: it cannot throw
CanThrow(step) == step # "firstComment"

\* initialize(): validateEnvironment, puppeteer.launch, newPage,
\* configurePageSettings; an error at any of them is logged and rethrown
initialize(failAt) ==
  /\ sPc = "idle"
  /\ liveBrowsers < MaxBrowsers
  /\ browser' = IF failAt \in {"env", "launch"} THEN browser ELSE TRUE
  /\ liveBrowsers' = IF failAt \in {"env", "launch"} THEN liveBrowsers
                     ELSE liveBrowsers + 1
  /\ page' = IF failAt \in {"env", "launch", "newPage"} THEN page ELSE TRUE
  /\ sLast' = Ended("initialize", IF failAt = "none" THEN "ok" ELSE "threw", failAt)
  /\ UNCHANGED <<isLoggedIn, tempFile, sPc, sIdx, sOpts>>

\* mutant: the session is marked authenticated when the credentials are
\* submitted, before the two-factor wait
loginMarksEarly(outcome) ==
  /\ sPc = "idle"
  /\ IF ~page
     THEN /\ sLast' = Ended("login", "threw", "noPage")
          /\ UNCHANGED isLoggedIn
     ELSE /\ isLoggedIn' = CASE outcome \in {"already", "verified", "twoFactor"} -> TRUE
                             [] outcome = "unverified" -> FALSE
                             [] OTHER -> isLoggedIn
          /\ sLast' = Ended("login",
                            IF outcome \in {"already", "verified"} THEN "ok" ELSE "threw",
                            outcome)
  /\ UNCHANGED <<browser, page, liveBrowsers, tempFile, sPc, sIdx, sOpts>>

\* login(): "already" = the logged-in markers are present after goto;
\* "verified" = credentials submitted and the checkIfLoggedIn after it is true;
\* "unverified" = that check returns false ('Login verification failed');
\* "goto", "submit", "twoFactor" = the step that throws before the check
login(outcome) ==
  /\ sPc = "idle"
  /\ IF ~page
     THEN /\ sLast' = Ended("login", "threw", "noPage")
          /\ UNCHANGED isLoggedIn
     ELSE /\ isLoggedIn' = CASE outcome \in {"already", "verified"} -> TRUE
                             [] outcome = "unverified" -> FALSE
                             [] OTHER -> isLoggedIn
          /\ sLast' = Ended("login",
                            IF outcome \in {"already", "verified"} THEN "ok" ELSE "threw",
                            outcome)
  /\ UNCHANGED <<browser, page, liveBrowsers, tempFile, sPc, sIdx, sOpts>>

\* createPost(pageId, options): the two guards
createPostCall(o) ==
  /\ sPc = "idle"
  /\ sOpts' = o
  /\ IF ~isLoggedIn
     THEN /\ sLast' = Ended("createPost", "threw", "notLoggedIn")
          /\ UNCHANGED <<sPc, sIdx>>
     ELSE IF ~page
     THEN /\ sLast' = Ended("createPost", "threw", "noPage")
          /\ UNCHANGED <<sPc, sIdx>>
     ELSE /\ sPc' = "createPost"
          /\ sIdx' = 1
          /\ sLast' = NoCall
  /\ UNCHANGED <<browser, page, isLoggedIn, liveBrowsers, tempFile>>

\* what createPost does after the awaited statement at sIdx resolved (ok) or
\* rejected: the catch block logs and rethrows, there is no finally
createPostAdvance(ok) ==
  IF ~ok
  THEN /\ sPc' = "idle"
       /\ sLast' = Ended("createPost", "threw", CurrentStep)
       /\ UNCHANGED sIdx
  ELSE IF sIdx = Len(CreateSteps(sOpts))
  THEN /\ sPc' = "idle"
       /\ sLast' = Ended("createPost", "ok", CurrentStep)
       /\ UNCHANGED sIdx
  ELSE /\ sIdx' = sIdx + 1
       /\ UNCHANGED <<sPc, sLast>>

\* one awaited interaction with the surface (navigate, click, wait, type, ...)
surfaceStep(ok) ==
  /\ sPc = "createPost"
  /\ CurrentStep \notin {"writeFile", "uploadFile", "unlink"}
  /\ ok \/ CanThrow(CurrentStep)
  /\ createPostAdvance(ok)
  /\ UNCHANGED <<browser, page, isLoggedIn, liveBrowsers, tempFile, sOpts>>

\* uploadImage: fs.writeFile(tempPath, ...); when it rejects the file may or
\* may not have been created
writeTempFile(ok, created) ==
  /\ sPc = "createPost"
  /\ CurrentStep = "writeFile"
  /\ ok => created
  /\ tempFile' = (tempFile \/ created)
  /\ createPostAdvance(ok)
  /\ UNCHANGED <<browser, page, isLoggedIn, liveBrowsers, sOpts>>

\* uploadImage: fileInput.uploadFile(tempPath)
uploadFile(ok) ==
  /\ sPc = "createPost"
  /\ CurrentStep = "uploadFile"
  /\ createPostAdvance(ok)
  /\ UNCHANGED <<browser, page, isLoggedIn, liveBrowsers, tempFile, sOpts>>

\* uploadImage: fs.unlink(tempPath)
unlinkTempFile(ok) ==
  /\ sPc = "createPost"
  /\ CurrentStep = "unlink"
  /\ tempFile' = IF ok THEN FALSE ELSE tempFile
  /\ createPostAdvance(ok)
  /\ UNCHANGED <<browser, page, isLoggedIn, liveBrowsers, sOpts>>

\* cleanup(): only when this.browser is set; the fields are cleared after
\* browser.close() resolved; when close rejects the error is rethrown
cleanup(closeOk) ==
  /\ sPc = "idle"
  /\ IF ~browser
     THEN /\ sLast' = Ended("cleanup", "ok", "noBrowser")
          /\ UNCHANGED <<browser, page, isLoggedIn, liveBrowsers>>
     ELSE IF closeOk
     THEN /\ browser' = FALSE
          /\ page' = FALSE
          /\ isLoggedIn' = FALSE
          /\ liveBrowsers' = liveBrowsers - 1
          /\ sLast' = Ended("cleanup", "ok", "closed")
     ELSE /\ sLast' = Ended("cleanup", "threw", "close")
          /\ UNCHANGED <<browser, page, isLoggedIn, liveBrowsers>>
  /\ UNCHANGED <<tempFile, sPc, sIdx, sOpts>>

(***************************************************************************)
(* PostScheduler, the posts table, and facebookAuth.publishPost            *)
(***************************************************************************)
PostIds == {"post1", "post2"}

\* post_pages of each post, in order
Targets(p) == IF p = "post1" THEN <<"pageA", "pageB">> ELSE <<"pageA">>

\* scheduled_for of each post
ScheduledFor(p) == IF p = "post1" THEN 0 ELSE MsPerSecond

\* a row of table posts; content stands for the columns content,
\* first_comment, image_url and user_id
NoRow == [status |-> "draft", scheduledFor |-> 0, error |-> "", content |-> ""]
NoTick == [pc |-> "unused", kind |-> "", asOf |-> 0, queue |-> <<>>, cur |-> "",
           thrown |-> [isError |-> FALSE, message |-> ""], kindOfFailure |-> "",
           failedAt |-> 0]
NoWrite == [post |-> "", status |-> "", error |-> "", applied |-> FALSE,
            thrown |-> "", kindOfFailure |-> "", failedAt |-> 0, rest |-> <<>>]

NoQuery == [called |-> FALSE, kind |-> "", asOf |-> 0, ok |-> FALSE, rows |-> <<>>]

\* .eq('status', 'scheduled').lte('scheduled_for', asOf), in id order
RECURSIVE DueFrom(_, _)
DueFrom(ids, asOf) ==
  IF ids = <<>> THEN <<>>
  ELSE (IF posts[Head(ids)].status = "scheduled" /\ posts[Head(ids)].scheduledFor <= asOf
        THEN <<Head(ids)>> ELSE <<>>) \o DueFrom(Tail(ids), asOf)

Due(asOf) == DueFrom(<<"post1", "post2">>, asOf)

\* mutant: a post that failed ends the loop
loopNextStopOnFailure(tk) ==
  IF tk.queue = <<>> \/ tk.failedAt # 0
  THEN [NoTick EXCEPT !.pc = "done", !.kind = tk.kind]
  ELSE [NoTick EXCEPT !.pc = "publishing", !.kind = tk.kind,
                      !.cur = Head(tk.queue), !.queue = Tail(tk.queue)]

\* the for loop of checkScheduledPosts: the next post of the snapshot is
\* handed to processScheduledPost, which calls publishPost; the loop ends
\* when the snapshot is used up
loopNext(tk) ==
  IF tk.queue = <<>>
  THEN [NoTick EXCEPT !.pc = "done", !.kind = tk.kind]
  ELSE [NoTick EXCEPT !.pc = "publishing", !.kind = tk.kind,
                      !.cur = Head(tk.queue), !.queue = Tail(tk.queue)]

\* "error instanceof Error ? error.message : 'Unknown error'"
ErrorText(e) == IF e.isError THEN e.message ELSE "Unknown error"

\* mutant: the failed update carries no error text
failedUpdateNoError(row, e) == [row EXCEPT !.status = "failed"]

\* .update({status: 'failed', error: ..., updated_at}) of the catch block
failedUpdate(row, e) == [row EXCEPT !.status = "failed", !.error = ErrorText(e)]

\* mutant: the update replaces the row by one that has the given fields only
publishedUpdateReplace(row) == [NoRow EXCEPT !.status = "published"]

\* .update({status: 'published', updated_at}) of the try block
publishedUpdate(row) == [row EXCEPT !.status = "published"]

(* facebookAuth.publishPost(post): the publish executor.  For each target  *)
(* page in order: resolve the credential (absent: 'credential-expired'),   *)
(* then publish on the surface; the first target that does not end         *)
(* Published rejects the whole call.                                       *)
CredentialExpired == "credential-expired"
Retryable == {"timeout", CredentialExpired}
Terminal == {"access-denied"}
SurfaceOutcomes == {"published", "timeout", "access-denied"}

\* outcome of target i: the credential lookup first, then the surface
TargetOutcome(p, outs, i) ==
  IF getTokenValue(Targets(p)[i]) = "" THEN CredentialExpired ELSE outs[i]

\* index of the first target that does not end Published, 0 when none
FirstFailure(p, outs) ==
  LET bad == {i \in 1..Len(Targets(p)) : TargetOutcome(p, outs, i) # "published"}
  IN  IF bad = {} THEN 0 ELSE CHOOSE i \in bad : \A j \in bad : i <= j

\* the targets whose credential publishPost looks up
Consulted(p, outs) ==
  LET f == FirstFailure(p, outs)
  IN  {Targets(p)[i] : i \in 1..(IF f = 0 THEN Len(Targets(p)) ELSE f)}

\* this.tokens after the getToken calls of publishPost
tokensAfterPublish(p, outs) ==
  [q \in Pages |->
     IF q \in Consulted(p, outs) /\ tokens[q].present /\ IsExpired(tokens[q], now)
     THEN Absent ELSE tokens[q]]

\* a tick ends; when it is the initial check a start() call is awaiting,
\* start() goes on: "this.intervalId = setInterval(...)"
armTimer(tk) ==
  IF tk.kind = "initial"
  THEN /\ nTimers' = nTimers + 1
       /\ intervalId' = nTimers + 1
       /\ timers' = timers \cup {nTimers + 1}
  ELSE UNCHANGED <<nTimers, intervalId, timers>>

\* the running invocations of checkScheduledPosts, as a bag of their states
Running == BagToSet(ticks)

\* a finished step of the invocation in state t: tk is its new state
tickStep(t, tk) ==
  IF tk.pc = "done"
  THEN ticks' = ticks (-) SetToBag({t}) /\ armTimer(tk)
  ELSE /\ ticks' = (ticks (-) SetToBag({t})) (+) SetToBag({tk})
       /\ UNCHANGED <<nTimers, intervalId, timers>>

\* mutant: the timer is armed before the initial check
startTimerFirst ==
  /\ starts < MaxStarts
  /\ BagCardinality(ticks) < MaxTicks
  /\ starts' = starts + 1
  /\ ticks' = ticks (+) SetToBag({[NoTick EXCEPT !.pc = "query", !.kind = "timer",
                                                  !.asOf = now]})
  /\ nTimers' = nTimers + 1
  /\ intervalId' = nTimers + 1
  /\ timers' = timers \cup {nTimers + 1}
  /\ lastWrite' = NoWrite
  /\ lastQuery' = NoQuery
  /\ stopped' = FALSE
  /\ UNCHANGED <<posts, ext, tokVars>>

\* start(): calls checkScheduledPosts, which issues its query, and awaits it
start ==
  /\ starts < MaxStarts
  /\ BagCardinality(ticks) < MaxTicks
  /\ starts' = starts + 1
  /\ ticks' = ticks (+) SetToBag({[NoTick EXCEPT !.pc = "query", !.kind = "initial",
                                                  !.asOf = now]})
  /\ lastWrite' = NoWrite
  /\ lastQuery' = NoQuery
  /\ stopped' = FALSE
  /\ UNCHANGED <<posts, timers, nTimers, intervalId, ext, tokVars>>

\* mutant: stop() also drops the invocations that are running
stopAndAbort ==
  /\ timers' = IF intervalId # 0 THEN timers \ {intervalId} ELSE timers
  /\ ticks' = EmptyBag
  /\ lastWrite' = NoWrite
  /\ lastQuery' = NoQuery
  /\ stopped' = TRUE
  /\ UNCHANGED <<posts, starts, nTimers, intervalId, ext, tokVars>>

\* stop()
stop ==
  /\ timers' = IF intervalId # 0 THEN timers \ {intervalId} ELSE timers
  /\ lastWrite' = NoWrite
  /\ lastQuery' = NoQuery
  /\ stopped' = TRUE
  /\ UNCHANGED <<posts, ticks, starts, nTimers, intervalId, ext, tokVars>>

\* the setInterval callback: checkScheduledPosts is called and not awaited
timerFire(id) ==
  /\ id \in timers
  /\ BagCardinality(ticks) < MaxTicks
  /\ ticks' = ticks (+) SetToBag({[NoTick EXCEPT !.pc = "query", !.kind = "timer",
                                                  !.asOf = now]})
  /\ lastWrite' = NoWrite
  /\ lastQuery' = NoQuery
  /\ UNCHANGED <<posts, starts, timers, nTimers, intervalId, ext, tokVars, stopped>>

\* the publishes one pass of checkScheduledPosts has in flight: its loop
\* awaits processScheduledPost(post) before it takes the next post
ConcurrencyCap == 1

\* the select of checkScheduledPosts returns: an error is thrown and caught
\* by the outer catch, otherwise the loop starts on the rows returned
queryReturn(t, ok) ==
  /\ t.pc = "query"
  /\ tickStep(t, IF ok THEN loopNext([t EXCEPT !.queue = Due(t.asOf)])
                 ELSE [NoTick EXCEPT !.pc = "done", !.kind = t.kind])
  /\ lastWrite' = NoWrite
  /\ lastQuery' = [called |-> TRUE, kind |-> t.kind, asOf |-> t.asOf, ok |-> ok,
                   rows |-> IF ok THEN Due(t.asOf) ELSE <<>>]
  /\ UNCHANGED <<posts, starts, ext, tokVars, stopped>>

\* publishPost(post) settles; processScheduledPost then issues the update of
\* its try block or of its catch block
publishSettle(t, outs) ==
  /\ t.pc = "publishing"
  /\ LET p == t.cur
         f == FirstFailure(p, outs)
         o == IF f = 0 THEN "published" ELSE TargetOutcome(p, outs, f)
     IN  /\ tickStep(t, [t EXCEPT !.pc = "writing",
                                  !.thrown = IF f = 0 THEN NoTick.thrown
                                             ELSE [isError |-> TRUE, message |-> o],
                                  !.kindOfFailure = IF f = 0 THEN ""
                                                    ELSE IF o \in Terminal THEN "terminal"
                                                    ELSE "retryable",
                                  !.failedAt = f])
         /\ ext' = [ext EXCEPT ![p] = IF f = 0 /\ @ < MaxExt THEN @ + 1 ELSE @]
         /\ tokens' = tokensAfterPublish(p, outs)
         /\ storage' = IF tokens' # tokens THEN saveTokens(tokens', TRUE) ELSE storage
  /\ lastWrite' = NoWrite
  /\ lastQuery' = NoQuery
  /\ UNCHANGED <<posts, starts, now, lastSet, getRes, saveFails, loaded, stopped>>

\* the update reaches the table: it is applied, or it is refused and the
\* error object it returns is not looked at; the loop then goes on
writeBack(t, applied) ==
  /\ t.pc = "writing"
  /\ LET p == t.cur
         row == IF t.failedAt = 0 THEN publishedUpdate(posts[p])
                ELSE failedUpdate(posts[p], t.thrown)
     IN  /\ posts' = IF applied THEN [posts EXCEPT ![p] = row] ELSE posts
         /\ lastWrite' = [post |-> p, status |-> row.status,
                          error |-> IF t.failedAt = 0 THEN "" ELSE row.error,
                          applied |-> applied,
                          thrown |-> t.thrown.message,
                          kindOfFailure |-> t.kindOfFailure,
                          failedAt |-> t.failedAt,
                          rest |-> t.queue]
  /\ tickStep(t, loopNext(t))
  /\ lastQuery' = NoQuery
  /\ UNCHANGED <<starts, ext, tokVars, stopped>>

\* time passes
schedClock ==
  /\ now + ClockStep <= SchedHorizon
  /\ AdvanceClock
  /\ lastWrite' = NoWrite
  /\ lastQuery' = NoQuery
  /\ UNCHANGED <<posts, ticks, starts, timers, nTimers, intervalId, ext, stopped>>

(***************************************************************************)
(* usePostStore: addPost and updatePost on the posts table                 *)
(***************************************************************************)
Statuses == {"draft", "scheduled", "published", "failed"}

\* no row with this id
AbsentRow == [status |-> "", scheduledFor |-> 0, error |-> "", content |-> ""]

\* Partial<Post> as updatePost passes it on: "" and -1 stand for undefined,
\* which the update leaves out
Patches == [status : Statuses \cup {""}, scheduledFor : {-1, 0, MsPerSecond},
            error : {"", "edited"}, content : {"", "edited"}]

\* how far addPost gets: no user, createPost throws, addPostPages throws,
\* publishPost throws, or everything resolves
AddOutcomes == {"noUser", "insertFails", "pagesFail", "publishFails", "ok"}

\* addPost(post): the row is inserted with post.status as given; when that
\* is 'published', publishPost(post) is called after the insert
addPost(p, st, when, outcome) ==
  /\ posts[p].status = ""
  /\ outcome = "publishFails" => st = "published"
  /\ posts' = IF outcome \in {"noUser", "insertFails"} THEN posts
              ELSE [posts EXCEPT ![p] = [status |-> st, scheduledFor |-> when,
                                         error |-> "", content |-> "text"]]
  /\ ext' = [ext EXCEPT ![p] = IF st = "published" /\ outcome = "ok" /\ @ < MaxExt
                                THEN @ + 1 ELSE @]
  /\ UNCHANGED <<ticks, starts, timers, nTimers, intervalId, lastWrite, lastQuery, stopped>>

\* updatePost(id, updatedPost): the fields that are defined replace those of
\* the row, whatever its status is; updated says whether the update applied
updatePost(p, patch, updated) ==
  /\ posts[p].status # ""
  /\ posts' = IF ~updated THEN posts
              ELSE [posts EXCEPT ![p] =
                     [status |-> IF patch.status = "" THEN @.status ELSE patch.status,
                      scheduledFor |-> IF patch.scheduledFor = -1 THEN @.scheduledFor
                                       ELSE patch.scheduledFor,
                      error |-> IF patch.error = "" THEN @.error ELSE patch.error,
                      content |-> IF patch.content = "" THEN @.content
                                  ELSE patch.content]]
  /\ UNCHANGED <<ticks, starts, timers, nTimers, intervalId, ext, lastWrite, lastQuery, stopped>>

(***************************************************************************)
(* FacebookAuth: initialize, login (getPages), logout                      *)
(***************************************************************************)
\* "60 * 24 * 60 * 60" seconds: a page token outlives the clock of the model
PageTokenTtl == (MaxNow \div MsPerSecond) + 1

\* FacebookAuth.initialize(): FB.init has run (directly or from fbAsyncInit)
authInitialize ==
  /\ ~initialized
  /\ initialized' = TRUE
  /\ UNCHANGED <<tokVars, loggedOut>>

\* FacebookAuth.login(): awaits initialize() when not initialized, then
\* getPages stores the token of every page that has an id and an access token
authLogin(ps, token, saveOk) ==
  /\ initialized' = TRUE
  /\ tokens' = [p \in Pages |->
                  IF p \in ps
                  THEN [present |-> TRUE, token |-> token,
                        expiresAt |-> now + PageTokenTtl * MsPerSecond]
                  ELSE tokens[p]]
  /\ storage' = IF ps = {} THEN storage ELSE saveTokens(tokens', saveOk)
  /\ saveFails' = IF ps = {} \/ saveOk THEN saveFails ELSE saveFails + 1
  /\ lastSet' = [p \in Pages |->
                   IF p \in ps
                   THEN [called |-> TRUE, at |-> now, ttl |-> PageTokenTtl, token |-> token]
                   ELSE lastSet[p]]
  /\ loggedOut' = (loggedOut /\ ps = {})
  /\ getRes' = NoGet
  /\ loaded' = NoStorage
  /\ UNCHANGED now

\* FacebookAuth.logout(): "if (!this.initialized) return;" otherwise the
\* FB.logout callback resets the flags and calls tokenManager.clearTokens()
logout ==
  /\ loggedOut' = TRUE
  /\ IF ~initialized
     THEN /\ getRes' = NoGet
          /\ loaded' = NoStorage
          /\ UNCHANGED <<now, tokens, storage, lastSet, saveFails, initialized>>
     ELSE /\ initialized' = FALSE
          /\ clearTokens

\* usePostStore.logout: Promise.all([facebookAuth.logout(),
\* supabase.auth.signOut()]); signOut does not touch the token store
storeLogout(signOutOk) == logout

\* the page is loaded again: a new TokenManager reads localStorage and a new
\* FacebookAuth starts uninitialized
reload ==
  /\ Restart
  /\ initialized' = FALSE
  /\ UNCHANGED loggedOut

(***************************************************************************)
(* Specifications                                                          *)
(***************************************************************************)
\* the token store right after construction: localStorage held no item, or
\* an item that no saveTokens call has written; the other components are at
\* rest
InitTok ==
  /\ now = 0
  /\ loaded \in {NoStorage, Unparseable, NullText, ScalarText, Malformed}
  /\ tokens = loadTokensFrom(loaded)
  /\ storage = storageAfterLoad(loaded)
  /\ lastSet = [p \in Pages |-> NoSet]
  /\ getRes = NoGet
  /\ saveFails = 0
  /\ rAttempts = 1
  /\ rScript = <<>>
  /\ rI = 0
  /\ rPc = "idle"
  /\ rTrace = <<>>
  /\ rResult = ""
  /\ browser = FALSE
  /\ page = FALSE
  /\ isLoggedIn = FALSE
  /\ liveBrowsers = 0
  /\ tempFile = FALSE
  /\ sPc = "idle"
  /\ sIdx = 0
  /\ sOpts = NoOpts
  /\ sLast = NoCall
  /\ posts = [p \in PostIds |-> NoRow]
  /\ ticks = EmptyBag
  /\ starts = 0
  /\ timers = {}
  /\ nTimers = 0
  /\ intervalId = 0
  /\ ext = [p \in PostIds |-> 0]
  /\ lastWrite = NoWrite
  /\ lastQuery = NoQuery
  /\ stopped = FALSE
  /\ initialized = FALSE
  /\ loggedOut = FALSE

\* retry(fn, attempts) has just been called; fn's behaviour is any script
InitRetry ==
  /\ now = 0
  /\ loaded = NoStorage
  /\ tokens = [p \in Pages |-> Absent]
  /\ storage = NoStorage
  /\ lastSet = [p \in Pages |-> NoSet]
  /\ getRes = NoGet
  /\ saveFails = 0
  /\ rAttempts \in 1..MaxAttempts
  /\ rScript \in [1..MaxAttempts -> Outcomes]
  /\ rI = 0
  /\ rPc = "call"
  /\ rTrace = <<>>
  /\ rResult = ""
  /\ browser = FALSE
  /\ page = FALSE
  /\ isLoggedIn = FALSE
  /\ liveBrowsers = 0
  /\ tempFile = FALSE
  /\ sPc = "idle"
  /\ sIdx = 0
  /\ sOpts = NoOpts
  /\ sLast = NoCall
  /\ posts = [p \in PostIds |-> NoRow]
  /\ ticks = EmptyBag
  /\ starts = 0
  /\ timers = {}
  /\ nTimers = 0
  /\ intervalId = 0
  /\ ext = [p \in PostIds |-> 0]
  /\ lastWrite = NoWrite
  /\ lastQuery = NoQuery
  /\ stopped = FALSE
  /\ initialized = FALSE
  /\ loggedOut = FALSE

NextRetry ==
  \/ RetryInvoke /\ UNCHANGED <<tokVars, sessVars, schedVars, authVars>>
  \/ RetrySleep /\ UNCHANGED <<tokVars, sessVars, schedVars, authVars>>

SpecRetry == InitRetry /\ [][NextRetry]_vars

\* a FacebookAutomation object right after construction
InitSession ==
  /\ now = 0
  /\ loaded = NoStorage
  /\ tokens = [p \in Pages |-> Absent]
  /\ storage = NoStorage
  /\ lastSet = [p \in Pages |-> NoSet]
  /\ getRes = NoGet
  /\ saveFails = 0
  /\ rAttempts = 1
  /\ rScript = <<>>
  /\ rI = 0
  /\ rPc = "idle"
  /\ rTrace = <<>>
  /\ rResult = ""
  /\ browser = FALSE
  /\ page = FALSE
  /\ isLoggedIn = FALSE
  /\ liveBrowsers = 0
  /\ tempFile = FALSE
  /\ sPc = "idle"
  /\ sIdx = 0
  /\ sOpts = NoOpts
  /\ sLast = NoCall
  /\ posts = [p \in PostIds |-> NoRow]
  /\ ticks = EmptyBag
  /\ starts = 0
  /\ timers = {}
  /\ nTimers = 0
  /\ intervalId = 0
  /\ ext = [p \in PostIds |-> 0]
  /\ lastWrite = NoWrite
  /\ lastQuery = NoQuery
  /\ stopped = FALSE
  /\ initialized = FALSE
  /\ loggedOut = FALSE

NextSession ==
  \/ \E f \in {"none", "env", "launch", "newPage", "configure"} :
       initialize(f) /\ UNCHANGED <<tokVars, retryVars, schedVars, authVars>>
  \/ \E o \in {"already", "verified", "unverified", "goto", "submit", "twoFactor"} :
       login(o) /\ UNCHANGED <<tokVars, retryVars, schedVars, authVars>>
  \/ \E o \in PostOptions : createPostCall(o) /\ UNCHANGED <<tokVars, retryVars, schedVars, authVars>>
  \/ \E ok \in BOOLEAN : surfaceStep(ok) /\ UNCHANGED <<tokVars, retryVars, schedVars, authVars>>
  \/ \E ok, created \in BOOLEAN : writeTempFile(ok, created) /\ UNCHANGED <<tokVars, retryVars, schedVars, authVars>>
  \/ \E ok \in BOOLEAN : uploadFile(ok) /\ UNCHANGED <<tokVars, retryVars, schedVars, authVars>>
  \/ \E ok \in BOOLEAN : unlinkTempFile(ok) /\ UNCHANGED <<tokVars, retryVars, schedVars, authVars>>
  \/ \E ok \in BOOLEAN : cleanup(ok) /\ UNCHANGED <<tokVars, retryVars, schedVars, authVars>>

SpecSession == InitSession /\ [][NextSession]_vars

\* the application has just been loaded: the posts table holds drafts and
\* scheduled posts; the token store holds, for each page, no token or the
\* token of an earlier login (pageB's expires at SchedHorizon, pageA's later)
InitSched ==
  /\ now = 0
  /\ tokens \in {tk \in [Pages -> {Absent} \cup
                                  [present : {TRUE}, token : {"tok1"},
                                   expiresAt : {SchedHorizon, SchedHorizon + MsPerSecond}]] :
                  /\ tk["pageA"].present => tk["pageA"].expiresAt > SchedHorizon
                  /\ tk["pageB"].present => tk["pageB"].expiresAt = SchedHorizon}
  /\ storage = [kind |-> "json", doc |-> Stringify(tokens)]
  /\ loaded = NoStorage
  /\ lastSet = [p \in Pages |-> NoSet]
  /\ getRes = NoGet
  /\ saveFails = 0
  /\ rAttempts = 1
  /\ rScript = <<>>
  /\ rI = 0
  /\ rPc = "idle"
  /\ rTrace = <<>>
  /\ rResult = ""
  /\ browser = FALSE
  /\ page = FALSE
  /\ isLoggedIn = FALSE
  /\ liveBrowsers = 0
  /\ tempFile = FALSE
  /\ sPc = "idle"
  /\ sIdx = 0
  /\ sOpts = NoOpts
  /\ sLast = NoCall
  /\ \E st \in [PostIds -> {"draft", "scheduled"}] :
       posts = [p \in PostIds |->
                  [status |-> st[p], scheduledFor |-> ScheduledFor(p), error |-> "",
                   content |-> "text"]]
  /\ ticks = EmptyBag
  /\ starts = 0
  /\ timers = {}
  /\ nTimers = 0
  /\ intervalId = 0
  /\ ext = [p \in PostIds |-> 0]
  /\ lastWrite = NoWrite
  /\ lastQuery = NoQuery
  /\ stopped = FALSE
  /\ initialized = FALSE
  /\ loggedOut = FALSE

NextSched ==
  \/ start /\ UNCHANGED <<retryVars, sessVars, authVars>>
  \/ stop /\ UNCHANGED <<retryVars, sessVars, authVars>>
  \/ \E id \in timers : timerFire(id) /\ UNCHANGED <<retryVars, sessVars, authVars>>
  \/ \E t \in Running, ok \in BOOLEAN :
       queryReturn(t, ok) /\ UNCHANGED <<retryVars, sessVars, authVars>>
  \/ \E t \in Running :
       \E outs \in [1..Len(Targets(t.cur)) -> SurfaceOutcomes] :
         publishSettle(t, outs) /\ UNCHANGED <<retryVars, sessVars, authVars>>
  \/ \E t \in Running, applied \in BOOLEAN :
       writeBack(t, applied) /\ UNCHANGED <<retryVars, sessVars, authVars>>
  \/ schedClock /\ UNCHANGED <<retryVars, sessVars, authVars>>

SpecSched == InitSched /\ [][NextSched]_vars

\* the store of a signed-in user before any post has been created
InitStore ==
  /\ now = 0
  /\ loaded = NoStorage
  /\ tokens = [p \in Pages |-> Absent]
  /\ storage = NoStorage
  /\ lastSet = [p \in Pages |-> NoSet]
  /\ getRes = NoGet
  /\ saveFails = 0
  /\ rAttempts = 1
  /\ rScript = <<>>
  /\ rI = 0
  /\ rPc = "idle"
  /\ rTrace = <<>>
  /\ rResult = ""
  /\ browser = FALSE
  /\ page = FALSE
  /\ isLoggedIn = FALSE
  /\ liveBrowsers = 0
  /\ tempFile = FALSE
  /\ sPc = "idle"
  /\ sIdx = 0
  /\ sOpts = NoOpts
  /\ sLast = NoCall
  /\ posts = [p \in PostIds |-> AbsentRow]
  /\ ticks = EmptyBag
  /\ starts = 0
  /\ timers = {}
  /\ nTimers = 0
  /\ intervalId = 0
  /\ ext = [p \in PostIds |-> 0]
  /\ lastWrite = NoWrite
  /\ lastQuery = NoQuery
  /\ stopped = FALSE
  /\ initialized = FALSE
  /\ loggedOut = FALSE

NextStore ==
  \/ \E p \in PostIds, st \in Statuses, when \in {0, MsPerSecond}, o \in AddOutcomes :
       addPost(p, st, when, o) /\ UNCHANGED <<tokVars, retryVars, sessVars, authVars>>
  \/ \E p \in PostIds, patch \in Patches, updated \in BOOLEAN :
       updatePost(p, patch, updated) /\ UNCHANGED <<tokVars, retryVars, sessVars, authVars>>

SpecStore == InitStore /\ [][NextStore]_vars

\* the application has just been loaded for the first time: no token stored,
\* the Facebook SDK not initialized
InitAuth ==
  /\ now = 0
  /\ loaded = NoStorage
  /\ tokens = [p \in Pages |-> Absent]
  /\ storage = NoStorage
  /\ lastSet = [p \in Pages |-> NoSet]
  /\ getRes = NoGet
  /\ saveFails = 0
  /\ rAttempts = 1
  /\ rScript = <<>>
  /\ rI = 0
  /\ rPc = "idle"
  /\ rTrace = <<>>
  /\ rResult = ""
  /\ browser = FALSE
  /\ page = FALSE
  /\ isLoggedIn = FALSE
  /\ liveBrowsers = 0
  /\ tempFile = FALSE
  /\ sPc = "idle"
  /\ sIdx = 0
  /\ sOpts = NoOpts
  /\ sLast = NoCall
  /\ posts = [p \in PostIds |-> NoRow]
  /\ ticks = EmptyBag
  /\ starts = 0
  /\ timers = {}
  /\ nTimers = 0
  /\ intervalId = 0
  /\ ext = [p \in PostIds |-> 0]
  /\ lastWrite = NoWrite
  /\ lastQuery = NoQuery
  /\ stopped = FALSE
  /\ initialized = FALSE
  /\ loggedOut = FALSE

NextAuth ==
  \/ authInitialize /\ UNCHANGED <<retryVars, sessVars, schedVars>>
  \/ \E ps \in SUBSET Pages, t \in TokenVals, ok \in SaveOutcomes :
       authLogin(ps, t, ok) /\ UNCHANGED <<retryVars, sessVars, schedVars>>
  \/ \E ok \in BOOLEAN : storeLogout(ok) /\ UNCHANGED <<retryVars, sessVars, schedVars>>
  \/ reload /\ UNCHANGED <<retryVars, sessVars, schedVars>>
  \/ \E p \in Pages, ok \in SaveOutcomes :
       getToken(p, ok) /\ UNCHANGED <<retryVars, sessVars, schedVars, authVars>>

SpecAuth == InitAuth /\ [][NextAuth]_vars

\* a token store that was constructed on an empty localStorage
InitTokOps ==
  /\ now = 0
  /\ loaded = NoStorage
  /\ tokens = [p \in Pages |-> Absent]
  /\ storage = NoStorage
  /\ lastSet = [p \in Pages |-> NoSet]
  /\ getRes = NoGet
  /\ saveFails = 0
  /\ rAttempts = 1
  /\ rScript = <<>>
  /\ rI = 0
  /\ rPc = "idle"
  /\ rTrace = <<>>
  /\ rResult = ""
  /\ browser = FALSE
  /\ page = FALSE
  /\ isLoggedIn = FALSE
  /\ liveBrowsers = 0
  /\ tempFile = FALSE
  /\ sPc = "idle"
  /\ sIdx = 0
  /\ sOpts = NoOpts
  /\ sLast = NoCall
  /\ posts = [p \in PostIds |-> NoRow]
  /\ ticks = EmptyBag
  /\ starts = 0
  /\ timers = {}
  /\ nTimers = 0
  /\ intervalId = 0
  /\ ext = [p \in PostIds |-> 0]
  /\ lastWrite = NoWrite
  /\ lastQuery = NoQuery
  /\ stopped = FALSE
  /\ initialized = FALSE
  /\ loggedOut = FALSE

\* any sequence of setToken, getToken and clearTokens while time passes
NextTokOps ==
  \/ \E p \in Pages, t \in TokenVals, e \in 0..MaxTtl, ok \in SaveOutcomes :
       setToken(p, t, e, ok) /\ UNCHANGED <<retryVars, sessVars, schedVars, authVars>>
  \/ \E p \in Pages, ok \in SaveOutcomes : getToken(p, ok) /\ UNCHANGED <<retryVars, sessVars, schedVars, authVars>>
  \/ clearTokens /\ UNCHANGED <<retryVars, sessVars, schedVars, authVars>>
  \/ AdvanceClock /\ UNCHANGED <<retryVars, sessVars, schedVars, authVars>>

SpecTokOps == InitTokOps /\ [][NextTokOps]_vars

NextTok ==
  \/ \E p \in Pages, t \in TokenVals, e \in 0..MaxTtl, ok \in SaveOutcomes :
       setToken(p, t, e, ok) /\ UNCHANGED <<retryVars, sessVars, schedVars, authVars>>
  \/ \E p \in Pages, ok \in SaveOutcomes : getToken(p, ok) /\ UNCHANGED <<retryVars, sessVars, schedVars, authVars>>
  \/ clearTokens /\ UNCHANGED <<retryVars, sessVars, schedVars, authVars>>
  \/ Restart /\ UNCHANGED <<retryVars, sessVars, schedVars, authVars>>
  \/ AdvanceClock /\ UNCHANGED <<retryVars, sessVars, schedVars, authVars>>

SpecTok == InitTok /\ [][NextTok]_vars

(***************************************************************************)
(* Claims                                                                  *)
(***************************************************************************)

\* the publish attempts of post p that are in flight: the invocations of
\* checkScheduledPosts that are awaiting publishPost(p)
InFlight(p) == {t \in Running : t.pc = "publishing" /\ t.cur = p}

\* C1: no duplicate dispatch: at any time at most one publish attempt of a
\* post is in flight; a tick that fires while an earlier tick is still
\* publishing a post does not publish that post again.
C1_NoDuplicateDispatch ==
  \A p \in PostIds : \A t \in InFlight(p) : InFlight(p) = {t} /\ CopiesIn(t, ticks) = 1

\* C2: status rollup: the status written back for a post is 'published'
\* exactly when every target ended Published, and 'failed' exactly when a
\* target failed terminally; after a failure that is only retryable no
\* status is written and the post stays 'scheduled'.
C2_StatusRollup ==
  lastWrite.post # "" =>
    /\ lastWrite.status = "published" <=> lastWrite.failedAt = 0
    /\ lastWrite.status = "failed" <=> lastWrite.kindOfFailure = "terminal"
    /\ lastWrite.kindOfFailure = "retryable" /\ lastWrite.applied
         => posts[lastWrite.post].status = "scheduled"

\* C3: at-most-once effective publish: within one run the publish of a post
\* succeeds against the external surface at most once, also when the
\* write-back of 'published' did not take effect.
C3_AtMostOncePublish == \A p \in PostIds : ext[p] <= 1

\* C4: getToken never returns a token whose expiresAt <= now, and once
\* setToken(page, token, t) was called at time T, a getToken(page) at any
\* time >= T + t seconds returns null (no newer setToken for that page).
C4_TokenExpiry ==
  getRes.called =>
    /\ getRes.value # "" => getRes.expiresAt > getRes.at
    /\ LET s == getRes.set
       IN  s.called /\ getRes.at >= s.at + s.ttl * MsPerSecond => getRes.value = ""

\* a getToken at exactly the expiry instant of the latest setToken, with
\* a positive ttl, has returned null
C4_Witness ==
  /\ getRes.called /\ getRes.value = ""
  /\ getRes.set.called /\ getRes.set.ttl > 0
  /\ getRes.at = getRes.set.at + getRes.set.ttl * MsPerSecond

\* number of leading invocations of fn that fail
RECURSIVE LeadingFailures(_, _)
LeadingFailures(script, from) ==
  IF from > Len(script) \/ script[from] \in Values THEN 0
  ELSE 1 + LeadingFailures(script, from + 1)

RetryEnded == rPc \in {"returned", "thrown"}

\* C5: an operation that fails k < maxAttempts times and then succeeds makes
\* retry return that success value after exactly k + 1 invocations, and the
\* operation is never invoked more than maxAttempts times.
C5_RetrySuccess ==
  /\ Calls(rTrace) <= rAttempts
  /\ LET k == LeadingFailures(rScript, 1)
     IN  RetryEnded /\ k < rAttempts =>
           /\ rPc = "returned"
           /\ rResult = rScript[k + 1]
           /\ Calls(rTrace) = k + 1

\* two failures, then success on the third and last attempt
C5_Witness ==
  /\ rPc = "returned" /\ rAttempts = 3
  /\ LeadingFailures(rScript, 1) = 2 /\ Calls(rTrace) = 3

\* the trace of a run whose n invocations all failed: call (delay call)*
RECURSIVE FailureTrace(_)
FailureTrace(n) ==
  IF n = 1 THEN <<[kind |-> "call", ms |-> 0]>>
  ELSE FailureTrace(n - 1) \o <<[kind |-> "delay", ms |-> RetryDelay],
                                [kind |-> "call", ms |-> 0]>>

\* C6: when the operation fails on every attempt, retry invokes it exactly
\* maxAttempts times, sleeps the fixed delay between consecutive attempts and
\* not after the last one, and then throws the error of the last attempt; no
\* error is thrown before the final attempt has failed.
C6_RetryFailure ==
  /\ RetryEnded /\ LeadingFailures(rScript, 1) >= rAttempts =>
       /\ rPc = "thrown"
       /\ rTrace = FailureTrace(rAttempts)
       /\ rResult = rScript[rAttempts]
  /\ rPc = "thrown" => Calls(rTrace) = rAttempts

\* three attempts failed, the first and the last with different errors
C6_Witness ==
  /\ rPc = "thrown" /\ rAttempts = 3 /\ Calls(rTrace) = 3
  /\ rScript[1] # rScript[3]

\* C7: whenever a publish run of an initialized session ends (createPost
\* returns, or throws at navigation, compose or confirm), the teardown has
\* run and the session is closed: browser released, page cleared, not
\* logged in.
C7_TeardownOnExit ==
  /\ sLast.op = "createPost" /\ sPc = "idle"
  /\ sLast.at \notin {"notLoggedIn", "noPage"}
  => ~browser /\ ~page /\ ~isLoggedIn /\ liveBrowsers = 0

\* C8: the temporary file written by uploadImage no longer exists once
\* uploadImage has returned or thrown (successful upload, failed write,
\* failed attach).
C8_TempFileRemoved ==
  ~(sPc = "createPost" /\ CurrentStep \in {"uploadFile", "unlink"}) => ~tempFile

\* C9: a target page without a non-expired credential ends as the retryable
\* failure 'credential-expired', and the post is not marked 'failed' because
\* of it.
C9_MissingCredential ==
  lastWrite.thrown = CredentialExpired =>
    /\ lastWrite.kindOfFailure = "retryable"
    /\ lastWrite.status # "failed"
    /\ posts[lastWrite.post].status # "failed"

C11_FailureIsolation ==
  /\ [](lastWrite.post # "" /\ lastWrite.rest # <<>> =>
         \E t \in Running : /\ t.pc = "publishing"
                             /\ t.cur = Head(lastWrite.rest)
                             /\ t.queue = Tail(lastWrite.rest))
  /\ [][timers \subseteq timers' \/ (ticks' = ticks /\ posts' = posts)]_vars

\* post1 has just failed in a timer tick whose snapshot also holds post2,
\* which is now being published by the same tick
C11_Witness ==
  /\ lastWrite.post = "post1" /\ lastWrite.failedAt # 0
  /\ lastWrite.rest = <<"post2">> /\ timers # {}
  /\ \E t \in Running : t.pc = "publishing" /\ t.cur = "post2" /\ t.kind = "timer"

\* the initial checks that start() calls are still awaiting
InitialChecks ==
  BagCardinality([t \in {x \in Running : x.kind = "initial"} |-> CopiesIn(t, ticks)])

C13_TerminalStatuses ==
  [][\A p \in PostIds :
       posts'[p].status # posts[p].status => posts[p].status = "scheduled"]_vars

\* what getToken(p) of a store holding the map m returns at time t
ValueOf(m, p, t) ==
  IF m[p].present /\ ~IsExpired(m[p], t) THEN m[p].token ELSE ""

\* C14: as long as no write to localStorage has failed, the persisted
\* 'fb_tokens' document equals the in-memory map after every mutation, and a
\* store rebuilt from it returns the same non-expired token for every page.
C14_Persistence ==
  saveFails = 0 =>
    /\ loadTokens = tokens
    /\ \A p \in Pages : ValueOf(loadTokens, p, now) = getTokenValue(p)

\* getToken has just evicted the expired token of pageA and persisted the
\* map, which still holds the token of pageB
C14_Witness ==
  /\ saveFails = 0
  /\ getRes.called /\ getRes.page = "pageA" /\ getRes.value = "" /\ getRes.set.called
  /\ ~tokens["pageA"].present /\ tokens["pageB"].present
  /\ storage.kind = "json" /\ storage.doc = Stringify(tokens)

\* the item is not a mapping from page id to {token, expiresAt}
Corrupt(item) ==
  \/ item.kind \in {"unparseable", "null", "scalar"}
  \/ item.kind = "json" /\ \E e \in item.doc : e[3] = NotANumber

\* C15: when the persisted item is corrupt, the store the constructor builds
\* from it is empty: getToken returns null for every page, and no token of
\* the corrupt item is kept.
C15_CorruptCacheDiscarded ==
  Corrupt(loaded) =>
    /\ \A p \in Pages : getTokenValue(p) = ""
    /\ \A p \in Pages : ~tokens[p].present

\* the invocation in state t can take its next step: its publishPost call
\* can settle, its status update can reach the table
CanGoOn(t) ==
  /\ t.pc = "publishing" =>
       ENABLED (\E outs \in [1..Len(Targets(t.cur)) -> SurfaceOutcomes] :
                  publishSettle(t, outs) /\ UNCHANGED <<retryVars, sessVars, authVars>>)
  /\ t.pc = "writing" =>
       ENABLED (writeBack(t, TRUE) /\ UNCHANGED <<retryVars, sessVars, authVars>>)

\* C16: stop() cancels the timer held in this.intervalId and nothing else:
\* the step leaves every running invocation and every post as it is, and
\* afterwards every publish in flight can still settle and write back.
C16_StopKeepsInFlight ==
  /\ [][(\E id \in timers : id \notin timers') =>
         /\ timers' = timers \ {intervalId}
         /\ ticks' = ticks /\ posts' = posts /\ ext' = ext]_vars
  /\ [](\A t \in Running : CanGoOn(t))

\* after stop() has cancelled the only timer, the tick that was running
\* has written back the status of its post
C16_Witness ==
  /\ starts = 1 /\ intervalId # 0 /\ timers = {}
  /\ lastWrite.post # "" /\ lastWrite.applied
  /\ posts[lastWrite.post].status = lastWrite.status

\* the status changes of the state machine: creation as draft or scheduled,
\* draft -> scheduled, scheduled -> published, scheduled -> failed, and the
\* re-schedule of a failed or published post
AllowedMoves ==
  {<<"", "draft">>, <<"", "scheduled">>, <<"draft", "scheduled">>,
   <<"scheduled", "published">>, <<"scheduled", "failed">>,
   <<"failed", "scheduled">>, <<"published", "scheduled">>}

\* C17: post status state machine: every change of a post's status made by
\* addPost or updatePost is one of the allowed moves; a post is not created
\* as published and does not go from published to draft.
C17_StatusStateMachine ==
  [][\A p \in PostIds :
       posts'[p].status # posts[p].status
         => <<posts[p].status, posts'[p].status>> \in AllowedMoves]_vars

RetriedSteps ==
  {"navigate", "composer", "textArea", "type", "fileInput", "uploadFile",
   "publish", "confirm"}

\* C19: per-step retry: a step of the publish workflow that rejects once is
\* attempted again on its own, so the first rejection of a step leaves
\* createPost in progress at that same step and does not end the call with an
\* error. (createPost awaits each step once, so every rejection of a step is
\* its first in the call.)
C19_PerStepRetry ==
  [][sPc = "createPost" /\ CurrentStep \in RetriedSteps /\ sLast' # sLast =>
       ~(sLast'.op = "createPost" /\ sLast'.result = "threw")]_vars

\* the two-factor prompt was detected after the submit and
\* waitForNavigation({timeout: 60000}) rejected
TwoFactorTimeout == Ended("login", "threw", "twoFactor")

\* C20: two-factor timeout: a login() on a session that is not authenticated,
\* in which the two-factor wait ends without the completion, fails with an
\* error and leaves isLoggedIn false; isLoggedIn becomes true only by a
\* login() that returns normally, and while it is false no createPost call
\* gets past its guard, so no navigation or compose follows.
C20_TwoFactorTimeout ==
  /\ [][~isLoggedIn /\ sLast'.op = "login" /\ sLast'.at = "twoFactor" =>
          sLast' = TwoFactorTimeout /\ ~isLoggedIn']_vars
  /\ [][~isLoggedIn /\ isLoggedIn' => sLast'.op = "login" /\ sLast'.result = "ok"]_vars
  /\ [][~isLoggedIn => sPc' # "createPost"]_vars
  /\ [](sPc = "createPost" => isLoggedIn)
  /\ [](~isLoggedIn /\ sPc = "idle" =>
          \A o \in PostOptions :
            ~ENABLED (createPostCall(o) /\ sPc' = "createPost"
                      /\ UNCHANGED <<tokVars, retryVars, schedVars, authVars>>))

\* the two-factor wait of a login() on an initialized, unauthenticated
\* session has timed out
C20_Witness ==
  /\ sLast = TwoFactorTimeout
  /\ page /\ browser /\ ~isLoggedIn /\ sPc = "idle"

\* C21: access denied is not retried: when no admin-only control is present
\* after navigation, the admin-access check is made once, no retry delay is
\* spent, and navigateToPage fails with 'No admin access to the page'.
C21_AccessDeniedNotRetried ==
  rScript[1] = verifyPageAdminAccess(FALSE, FALSE) =>
    /\ Calls(rTrace) <= 1
    /\ Delays(rTrace) = 0
    /\ RetryEnded =>
         /\ rPc = "returned"
         /\ Calls(rTrace) = 1
         /\ adminAccess(rResult) = "No admin access to the page"

\* the check found no admin control, the budget of three attempts was left
\* unused although a second check would have found one
C21_Witness ==
  /\ rAttempts = 3 /\ rPc = "returned"
  /\ rScript[1] = verifyPageAdminAccess(FALSE, FALSE)
  /\ rScript[2] = verifyPageAdminAccess(TRUE, FALSE)
  /\ rTrace = <<[kind |-> "call", ms |-> 0]>>

\* C22: credentials are destroyed on logout: after a logout() has completed
\* and until the next setToken, the token store holds no credential in memory
\* or in the persisted document, and getToken returns absent for every page.
C22_LogoutDestroysCredentials ==
  loggedOut =>
    /\ \A p \in Pages : ~tokens[p].present /\ getTokenValue(p) = ""
    /\ \A p \in Pages : ~loadTokens[p].present

\* the publish attempts in flight, counted over all running invocations of
\* checkScheduledPosts
PublishesInFlight ==
  BagCardinality([t \in {x \in Running : x.pc = "publishing"} |-> CopiesIn(t, ticks)])

\* C23: bounded concurrency: at every moment the number of publish attempts
\* in flight, over all running ticks, stays within the concurrency cap; a
\* publish that outlasts the poll interval does not let later ticks add
\* simultaneous publishes.
C23_BoundedConcurrency == PublishesInFlight <= ConcurrencyCap

C25_WriteFrame ==
  [][\A p \in PostIds :
       posts'[p] # posts[p] =>
         /\ posts'[p].scheduledFor = posts[p].scheduledFor
         /\ posts'[p].content = posts[p].content
         /\ lastWrite'.post = p /\ lastWrite'.applied
         /\ \E t \in Running : t.pc = "writing" /\ t.cur = p
         /\ posts[p].scheduledFor <= now
         /\ \A q \in PostIds \ {p} : posts'[q] = posts[q]]_vars

\* post2 has just been written back as published: its scheduled time and
\* content are as before, and post1, a draft, is untouched
C25_Witness ==
  /\ lastWrite.post = "post2" /\ lastWrite.applied /\ lastWrite.status = "published"
  /\ posts["post2"] = [status |-> "published", scheduledFor |-> ScheduledFor("post2"),
                        error |-> "", content |-> "text"]
  /\ posts["post1"] = [status |-> "draft", scheduledFor |-> ScheduledFor("post1"),
                        error |-> "", content |-> "text"]

\* C26: no tick after stop: once stop() has been called and until start() is
\* called again, no discovery pass begins, also when stop() was called while
\* a start() call was still awaiting its initial check.
C26_NoTickAfterStop ==
  [][stopped /\ stopped' => BagCardinality(ticks') <= BagCardinality(ticks)]_vars

\* C27: single timer: at most one periodic timer is active at any time, and
\* a stop() cancels every timer the scheduler has created, also after start()
\* was called twice.
C27_SingleTimer ==
  /\ [](Cardinality(timers) <= 1)
  /\ [][~stopped /\ stopped' => timers' = {}]_vars

\* C28: retry repeats an operation only when it throws: an operation that
\* returns a value, false included, is invoked once and that value is
\* returned without a delay; every invocation before the last one threw. So
\* the login verification, whose check returns false when the logged-in
\* markers are absent, makes one check and login fails with 'Login
\* verification failed'.
C28_RetryOnlyOnThrow ==
  /\ \A i \in 1..(Calls(rTrace) - 1) : rScript[i] \in Errors
  /\ Delays(rTrace) <= Calls(rTrace)
  /\ rScript[1] \in Values =>
       /\ Calls(rTrace) <= 1 /\ Delays(rTrace) = 0
       /\ RetryEnded => rPc = "returned" /\ rResult = rScript[1]
  /\ rScript[1] = checkIfLoggedIn(FALSE, FALSE) /\ RetryEnded =>
       /\ rTrace = <<[kind |-> "call", ms |-> 0]>>
       /\ verifyLogin(rResult) = "Login verification failed"

\* the check returned false on the first of two attempts and retry returned
\* it; the second attempt was never made
C28_Witness ==
  /\ rAttempts = 2 /\ rPc = "returned" /\ rResult = "false"
  /\ rScript[1] = checkIfLoggedIn(FALSE, FALSE)
  /\ Calls(rTrace) = 1 /\ Delays(rTrace) = 0

\* createPost must fail in this state: the session is not initialized, no
\* login has succeeded since the last cleanup, or the call that has just
\* ended is a failed login() or a cleanup()
MustRefuse ==
  \/ ~page
  \/ ~isLoggedIn
  \/ sLast.op = "login" /\ sLast.result = "threw"
  \/ sLast.op = "cleanup" /\ sLast.result = "ok"

\* C29: session guard: createPost interacts with the surface only on a
\* session that is initialized and logged in; called before initialize(),
\* before a successful login(), after a failed login() or after cleanup(), it
\* fails with an error and changes nothing.
C29_SessionGuard ==
  /\ [](sPc = "createPost" => browser /\ page /\ isLoggedIn)
  /\ [][sPc = "idle" /\ MustRefuse /\ sLast'.op = "createPost" =>
          /\ sLast'.result = "threw" /\ sPc' = "idle"
          /\ UNCHANGED <<browser, page, isLoggedIn, liveBrowsers, tempFile>>]_vars
  /\ [][sPc = "idle" /\ MustRefuse => sPc' # "createPost"]_vars

\* C30: read-your-write per page: after any sequence of setToken, getToken
\* and clearTokens, a getToken(p) before expiry returns the token of the
\* latest setToken(p, ...) that no clearTokens has followed, and absent when
\* there is none; a setToken or getToken on another page does not change
\* what getToken(p) returns.
C30_ReadYourWrite ==
  /\ [](getRes.called =>
          LET set == getRes.set
          IN  /\ set.called /\ getRes.at < set.at + set.ttl * MsPerSecond
                   => getRes.value = set.token
              /\ ~set.called => getRes.value = "")
  /\ [][\A p, q \in Pages :
          /\ p # q
          /\ \/ lastSet'[q].called /\ lastSet'[q] # lastSet[q]
             \/ getRes'.called /\ getRes'.page = q
          => /\ tokens'[p] = tokens[p]
             /\ ValueOf(tokens', p, now') = ValueOf(tokens, p, now)]_vars

\* getToken('pageA') has returned tok2 while pageB holds tok1: each page
\* gives back its own latest token
C30_Witness ==
  /\ getRes.called /\ getRes.page = "pageA" /\ getRes.value = "tok2"
  /\ getRes.set.called /\ getRes.set.token = "tok2"
  /\ lastSet["pageB"].called /\ lastSet["pageB"].token = "tok1"
  /\ ValueOf(tokens, "pageB", now) = "tok1"

====
